---- MODULE Spec2Model ----
(***************************************************************************)
(* Crazy Ones (Crazy-Eights with Aces wild): the reducer of src/App.tsx,   *)
(* the rules and the computer policy of utils/gameLogic.ts, and the        *)
(* presentation layer's handlers, effect and timer that issue the intents. *)
(***************************************************************************)
EXTENDS Integers, Sequences, FiniteSets, TLC

VARIABLES
    state,      \* the GameState snapshot held by useReducer
    timer,      \* the setTimeout of the AI effect: pending or not, the snapshot its closure
                \* captured, and whether the last cleanup cleared a timer that had not fired
    effDeps,    \* the dependency values the AI effect last ran with
    fullDeck,   \* TRUE: 13 ranks, 8 cards dealt; FALSE: the reduced table
    probe       \* an input/result pair of a pure helper (SpecLogic only)

vars == <<state, timer, effDeps, fullDeck, probe>>

----------------------------------------------------------------------------
(* Bounds of the model. *)

\* ranks in play on the reduced table (the first SmallRanks entries of RANKS)
SmallRanks == 3
\* cards dealt to each hand on the reduced table
SmallDeal == 2
\* outcomes of the random source: seeds 0..MaxSeed
MaxSeed == 2
\* on the full 52-card table, cards that may leave the draw pile or enter the discard pile per game
MaxFullMoves == 2
\* longest hand handed to getAiMove in SpecLogic
MaxProbeHand == 2

(* Program constants. *)
FullDeal == 8

----------------------------------------------------------------------------
(* types.ts / gameLogic.ts: the card domain *)

SUITS == <<"hearts", "diamonds", "clubs", "spades">>
RANKS == <<"A", "2", "3", "4", "5", "6", "7", "8", "9", "10", "J", "Q", "K">>

null == "null"
\* JavaScript's undefined / null where a card is expected
NoCard == [id |-> -1, suit |-> "undefined", rank |-> "undefined", value |-> 0]

RankCount(full) == IF full THEN Len(RANKS) ELSE SmallRanks
DealCount(full) == IF full THEN FullDeal ELSE SmallDeal
DeckSize(full) == Len(SUITS) * RankCount(full)

\* value: A = 1, J/Q/K = 10, otherwise parseInt(rank); r is the index of the rank in RANKS
CardValue(r) == IF RANKS[r] = "A" THEN 1
                ELSE IF RANKS[r] \in {"J", "Q", "K"} THEN 10
                ELSE r

\* the card pushed when idCounter = n: SUITS.forEach(suit => RANKS.forEach(rank => ...))
NewCard(n, full) ==
    LET si == (n \div RankCount(full)) + 1
        ri == (n % RankCount(full)) + 1
    IN  [id |-> n, suit |-> SUITS[si], rank |-> RANKS[ri], value |-> CardValue(ri)]

\* deck.push(...) for idCounter = n, n + 1, ... until every (suit, rank) is pushed
RECURSIVE PushCards(_, _, _)
PushCards(deck, n, full) ==
    IF n >= DeckSize(full) THEN deck
    ELSE PushCards(Append(deck, NewCard(n, full)), n + 1, full)

\* the deck in creation order, before shuffle
OrderedDeck(full) == PushCards(<<>>, 0, full)

\* Math.floor(Math.random() * (i + 1)) for the seed-th outcome of the random source
RandomIndex(seed, i) == (i + seed * (14 * i + 10) + (2 * seed * i * i) \div 3) % (i + 1)

Swap(d, a, b) == [d EXCEPT ![a] = d[b], ![b] = d[a]]

\* the Fisher-Yates loop for (i = length - 1; i > 0; i--), 0-based i
RECURSIVE shuffleFrom(_, _, _)
shuffleFrom(d, i, seed) ==
    IF i <= 0 THEN d
    ELSE shuffleFrom(Swap(d, i + 1, RandomIndex(seed, i) + 1), i - 1, seed)

shuffle(deck, seed) == shuffleFrom(deck, Len(deck) - 1, seed)

\* as shuffleCall, but the loop swaps in the caller's array itself
shuffleCallInPlace(deck, seed) ==
    [argument |-> shuffle(deck, seed), returned |-> shuffle(deck, seed)]

\* a call of shuffle: newDeck = [...deck] is swapped and returned, the
\* caller's array is what it was
shuffleCall(deck, seed) ==
    [argument |-> deck, returned |-> shuffle(deck, seed)]

createDeck(full, seed) == shuffle(OrderedDeck(full), seed)

Seeds == 0..MaxSeed

----------------------------------------------------------------------------
(* gameLogic.ts: rules and computer policy *)

\* as isValidMove, but a declared suit does not displace the top card's suit
isValidMoveTopSuitToo(card, topCard, currentSuit) ==
    IF card = NoCard THEN FALSE
    ELSE IF card.rank = "A" THEN TRUE
    ELSE IF topCard = NoCard THEN TRUE
    ELSE LET targetSuit == IF currentSuit # null THEN currentSuit ELSE topCard.suit
         IN  card.suit = targetSuit \/ card.suit = topCard.suit \/ card.rank = topCard.rank

isValidMove(card, topCard, currentSuit) ==
    IF card = NoCard THEN FALSE
    ELSE IF card.rank = "A" THEN TRUE
    ELSE IF topCard = NoCard THEN TRUE
    ELSE LET targetSuit == IF currentSuit # null THEN currentSuit ELSE topCard.suit
         IN  card.suit = targetSuit \/ card.rank = topCard.rank

Range(s) == {s[i] : i \in 1..Len(s)}

\* as getAiMove, but without the wild-card fallback
getAiMoveNoWild(hand, topCard, currentSuit) ==
    IF Len(hand) = 0 \/ topCard = NoCard THEN {NoCard}
    ELSE LET Normal(c) == c.rank # "A" /\ isValidMove(c, topCard, currentSuit)
             normalMoves == SelectSeq(hand, Normal)
         IN  IF Len(normalMoves) > 0 THEN Range(normalMoves) ELSE {NoCard}

\* as getAiMove, but the wild card is tried before the normal moves
getAiMoveWildFirst(hand, topCard, currentSuit) ==
    IF Len(hand) = 0 \/ topCard = NoCard THEN {NoCard}
    ELSE LET Normal(c) == c.rank # "A" /\ isValidMove(c, topCard, currentSuit)
             normalMoves == SelectSeq(hand, Normal)
             IsAce(c) == c.rank = "A"
             wild == SelectSeq(hand, IsAce)
         IN  IF Len(wild) > 0 THEN {wild[1]}
             ELSE IF Len(normalMoves) > 0 THEN Range(normalMoves)
             ELSE {NoCard}

\* the set of values getAiMove may return (NoCard is null); the random pick
\* among normalMoves is the only choice it makes
getAiMove(hand, topCard, currentSuit) ==
    IF Len(hand) = 0 \/ topCard = NoCard THEN {NoCard}
    ELSE LET Normal(c) == c.rank # "A" /\ isValidMove(c, topCard, currentSuit)
             normalMoves == SelectSeq(hand, Normal)
             IsAce(c) == c.rank = "A"
             wild == SelectSeq(hand, IsAce)
         IN  IF Len(normalMoves) > 0 THEN Range(normalMoves)
             ELSE IF Len(wild) > 0 THEN {wild[1]}
             ELSE {NoCard}

----------------------------------------------------------------------------
(* App.tsx: the reducer *)

initialState ==
    [status |-> "menu", deck |-> <<>>, playerHand |-> <<>>, aiHand |-> <<>>,
     discardPile |-> <<>>, turn |-> "player", currentSuit |-> null,
     message |-> "", isAiThinking |-> FALSE, showSuitPicker |-> FALSE]

\* Array.prototype.filter(c => c.id !== card.id)
WithoutId(hand, card) ==
    LET Keep(c) == c.id # card.id IN SelectSeq(hand, Keep)

\* as SeedDiscard, but without the redraw loop
SeedDiscardNoRedraw(pile) ==
    [deck |-> SubSeq(pile, 1, Len(pile) - 1), firstDiscard |-> pile[Len(pile)]]

\* firstDiscard = newDeck.pop(); while it is an Ace, unshift it and pop again
RECURSIVE SeedDiscard(_)
SeedDiscard(d) ==
    LET last == d[Len(d)]
        rest == SubSeq(d, 1, Len(d) - 1)
    IN  IF last.rank = "A" THEN SeedDiscard(<<last>> \o rest)
        ELSE [deck |-> rest, firstDiscard |-> last]

StartGame(full, seed) ==
    LET newDeck == createDeck(full, seed)
        n == DealCount(full)
        pHand == SubSeq(newDeck, 1, n)
        aHand == SubSeq(newDeck, n + 1, 2 * n)
        rest == SubSeq(newDeck, 2 * n + 1, Len(newDeck))
        sd == SeedDiscard(rest)
    IN  [initialState EXCEPT
            !.status = "playing",
            !.deck = sd.deck,
            !.playerHand = pHand,
            !.aiHand = aHand,
            !.discardPile = <<sd.firstDiscard>>,
            !.message = "your turn"]

\* as PlayerPlay, but an Ace passes the turn at once
PlayerPlayAcePassesTurn(s, card) ==
    LET newHand == WithoutId(s.playerHand, card)
        isGameOver == Len(newHand) = 0
    IN  [s EXCEPT
            !.playerHand = newHand,
            !.discardPile = Append(s.discardPile, card),
            !.status = IF isGameOver THEN "gameOver" ELSE s.status,
            !.showSuitPicker = ~isGameOver /\ card.rank = "A",
            !.currentSuit = IF card.rank = "A" THEN s.currentSuit ELSE null,
            !.turn = IF isGameOver THEN "player" ELSE "ai",
            !.message = IF isGameOver THEN "you win"
                        ELSE IF card.rank = "A" THEN "choose a suit"
                        ELSE "AI is thinking"]

\* as PlayerPlay, but the declared suit survives every play
PlayerPlayKeepsSuit(s, card) ==
    LET newHand == WithoutId(s.playerHand, card)
        isGameOver == Len(newHand) = 0
    IN  [s EXCEPT
            !.playerHand = newHand,
            !.discardPile = Append(s.discardPile, card),
            !.status = IF isGameOver THEN "gameOver" ELSE s.status,
            !.showSuitPicker = ~isGameOver /\ card.rank = "A",
            !.turn = IF isGameOver \/ card.rank = "A" THEN "player" ELSE "ai",
            !.message = IF isGameOver THEN "you win"
                        ELSE IF card.rank = "A" THEN "choose a suit"
                        ELSE "AI is thinking"]

PlayerPlay(s, card) ==
    LET newHand == WithoutId(s.playerHand, card)
        isGameOver == Len(newHand) = 0
    IN  [s EXCEPT
            !.playerHand = newHand,
            !.discardPile = Append(s.discardPile, card),
            !.status = IF isGameOver THEN "gameOver" ELSE s.status,
            !.showSuitPicker = ~isGameOver /\ card.rank = "A",
            !.currentSuit = IF card.rank = "A" THEN s.currentSuit ELSE null,
            !.turn = IF isGameOver \/ card.rank = "A" THEN "player" ELSE "ai",
            !.message = IF isGameOver THEN "you win"
                        ELSE IF card.rank = "A" THEN "choose a suit"
                        ELSE "AI is thinking"]

\* as AiPlay, but the status never becomes gameOver
AiPlayKeepsStatus(s, card) ==
    [s EXCEPT
        !.aiHand = WithoutId(s.aiHand, card),
        !.discardPile = Append(s.discardPile, card),
        !.currentSuit = IF card.rank = "A" THEN s.currentSuit ELSE null,
        !.turn = "player",
        !.message = "your turn"]

AiPlay(s, card) ==
    LET newHand == WithoutId(s.aiHand, card)
        isGameOver == Len(newHand) = 0
    IN  [s EXCEPT
            !.aiHand = newHand,
            !.discardPile = Append(s.discardPile, card),
            !.status = IF isGameOver THEN "gameOver" ELSE s.status,
            !.currentSuit = IF card.rank = "A" THEN s.currentSuit ELSE null,
            !.turn = "player",
            !.message = IF isGameOver THEN "AI wins" ELSE "your turn"]

\* as Draw, but without the empty-pile guard: pop() of an empty array is undefined
DrawUnguarded(s, who) ==
    LET newDeck == IF Len(s.deck) = 0 THEN <<>> ELSE SubSeq(s.deck, 1, Len(s.deck) - 1)
        drawnCard == IF Len(s.deck) = 0 THEN NoCard ELSE s.deck[Len(s.deck)]
    IN  IF who = "player"
        THEN [s EXCEPT !.deck = newDeck,
                       !.playerHand = Append(s.playerHand, drawnCard),
                       !.turn = "ai",
                       !.message = "you drew"]
        ELSE [s EXCEPT !.deck = newDeck,
                       !.aiHand = Append(s.aiHand, drawnCard),
                       !.turn = "player",
                       !.message = "AI drew"]

Draw(s, who) ==
    IF Len(s.deck) = 0 THEN s
    ELSE LET newDeck == SubSeq(s.deck, 1, Len(s.deck) - 1)
             drawnCard == s.deck[Len(s.deck)]
         IN  IF who = "player"
             THEN [s EXCEPT !.deck = newDeck,
                            !.playerHand = Append(s.playerHand, drawnCard),
                            !.turn = "ai",
                            !.message = "you drew"]
             ELSE [s EXCEPT !.deck = newDeck,
                            !.aiHand = Append(s.aiHand, drawnCard),
                            !.turn = "player",
                            !.message = "AI drew"]

SetSuit(s, suit) ==
    [s EXCEPT !.currentSuit = suit, !.showSuitPicker = FALSE, !.turn = "ai",
              !.message = "suit set"]

SetMenu(s) == [initialState EXCEPT !.status = "menu"]

SetAiThinking(s, value) == [s EXCEPT !.isAiThinking = value]

SkipTurn(s, who) ==
    [s EXCEPT !.turn = IF who = "player" THEN "ai" ELSE "player",
              !.message = "skipped"]

\* (state, action) => state; a START_GAME action carries the outcome of the
\* random source that createDeck consumes
gameReducer(s, a) ==
    CASE a.type = "START_GAME" -> StartGame(fullDeck, a.seed)
      [] a.type = "PLAYER_PLAY" -> PlayerPlay(s, a.card)
      [] a.type = "AI_PLAY" -> AiPlay(s, a.card)
      [] a.type = "DRAW" -> Draw(s, a.who)
      [] a.type = "SET_SUIT" -> SetSuit(s, a.suit)
      [] a.type = "SET_MENU" -> SetMenu(s)
      [] a.type = "SET_AI_THINKING" -> SetAiThinking(s, a.value)
      [] a.type = "SKIP_TURN" -> SkipTurn(s, a.who)
      [] OTHER -> s

----------------------------------------------------------------------------
(* App.tsx: GameContent, the presentation layer that issues the intents *)

Top(s) == IF Len(s.discardPile) = 0 THEN NoCard ELSE s.discardPile[Len(s.discardPile)]

\* the dependency array of the AI effect
Deps(s) == <<s.turn, s.status, Len(s.aiHand), Len(s.discardPile), s.currentSuit>>

NoTimer == [pending |-> FALSE, snap |-> initialState, cleared |-> FALSE]

\* the full-screen modals (fixed inset-0 z-50) that cover the table
ModalOpen(s) == s.showSuitPicker \/ s.status = "gameOver"

\* cards that have left the draw pile or entered the discard pile since the deal
CardsMoved(s) ==
    (DeckSize(fullDeck) - 2 * DealCount(fullDeck) - 1 - Len(s.deck)) + (Len(s.discardPile) - 1)

WithinBound == fullDeck => CardsMoved(state) < MaxFullMoves

\* as Commit, but the effect returns no cleanup: a timer left pending stays armed
CommitNoCleanup(s, t) ==
    IF Deps(s) = effDeps
    THEN /\ state' = s
         /\ timer' = t
         /\ effDeps' = effDeps
    ELSE /\ effDeps' = Deps(s)
         /\ IF s.status = "playing" /\ s.turn = "ai" /\ ~s.isAiThinking
            THEN /\ state' = gameReducer(s, [type |-> "SET_AI_THINKING", value |-> TRUE])
                 /\ timer' = [pending |-> TRUE, snap |-> s, cleared |-> FALSE]
            ELSE /\ state' = s
                 /\ timer' = t

\* A render commits snapshot s. When a dependency changed, the cleanup of the
\* previous effect run clears its timer, and the effect body runs again: on the
\* computer's turn it dispatches SET_AI_THINKING(true) and arms a timer whose
\* closure holds s. t is the timer left pending by the handler itself.
Commit(s, t) ==
    IF Deps(s) = effDeps
    THEN /\ state' = s
         /\ timer' = t
         /\ effDeps' = effDeps
    ELSE /\ effDeps' = Deps(s)
         /\ IF s.status = "playing" /\ s.turn = "ai" /\ ~s.isAiThinking
            THEN /\ state' = gameReducer(s, [type |-> "SET_AI_THINKING", value |-> TRUE])
                 /\ timer' = [pending |-> TRUE, snap |-> s, cleared |-> t.pending]
            ELSE /\ state' = s
                 /\ timer' = [NoTimer EXCEPT !.cleared = t.pending]

\* the start buttons: menu, header, game-over modal
ClickStart ==
    /\ \E seed \in Seeds :
          Commit(gameReducer(state, [type |-> "START_GAME", seed |-> seed]), timer)
    /\ UNCHANGED <<fullDeck, probe>>

\* the header's close button
ClickMenu ==
    /\ state.status # "menu"
    /\ Commit(gameReducer(state, [type |-> "SET_MENU"]), timer)
    /\ UNCHANGED <<fullDeck, probe>>

\* a click on a card of the player's hand: Card's onClick, then handlePlayerPlay
ClickCard ==
    /\ state.status # "menu"
    /\ ~ModalOpen(state)
    /\ WithinBound
    /\ ~(state.turn # "player" \/ state.isAiThinking)
    /\ ~(state.status # "playing" \/ state.turn # "player" \/ state.isAiThinking)
    /\ \E i \in 1..Len(state.playerHand) :
          LET card == state.playerHand[i] IN
          /\ isValidMove(card, Top(state), state.currentSuit)
          /\ Commit(gameReducer(state, [type |-> "PLAYER_PLAY", card |-> card]), timer)
    /\ UNCHANGED <<fullDeck, probe>>

\* a click on the draw pile
ClickDraw ==
    /\ state.status # "menu"
    /\ ~ModalOpen(state)
    /\ WithinBound
    /\ ~(state.turn # "player" \/ state.isAiThinking)
    /\ state.turn = "player"
    /\ Commit(gameReducer(state, [type |-> "DRAW", who |-> "player"]), timer)
    /\ UNCHANGED <<fullDeck, probe>>

\* a button of the suit picker
PickSuit ==
    /\ state.status # "menu"
    /\ state.showSuitPicker
    /\ \E suit \in Range(SUITS) :
          Commit(gameReducer(state, [type |-> "SET_SUIT", suit |-> suit]), timer)
    /\ UNCHANGED <<fullDeck, probe>>

\* as AiDispatch, but the draw-or-skip branch is not an else branch
AiDispatchPlayThenDraw(cur, s, move, randomSuit) ==
    LET played ==
            IF move # NoCard
            THEN LET p == gameReducer(cur, [type |-> "AI_PLAY", card |-> move])
                 IN  IF move.rank = "A"
                     THEN gameReducer(p, [type |-> "SET_SUIT", suit |-> randomSuit])
                     ELSE p
            ELSE cur
        moved ==
            IF Len(s.deck) > 0
            THEN gameReducer(played, [type |-> "DRAW", who |-> "ai"])
            ELSE gameReducer(played, [type |-> "SKIP_TURN", who |-> "ai"])
    IN  gameReducer(moved, [type |-> "SET_AI_THINKING", value |-> FALSE])

\* as AiDispatch, but without the closing SET_AI_THINKING(false)
AiDispatchKeepsThinking(cur, s, move, randomSuit) ==
    IF move # NoCard
    THEN LET played == gameReducer(cur, [type |-> "AI_PLAY", card |-> move])
         IN  IF move.rank = "A"
             THEN gameReducer(played, [type |-> "SET_SUIT", suit |-> randomSuit])
             ELSE played
    ELSE IF Len(s.deck) > 0
         THEN gameReducer(cur, [type |-> "DRAW", who |-> "ai"])
         ELSE gameReducer(cur, [type |-> "SKIP_TURN", who |-> "ai"])

\* what the timer callback dispatches, applied in order to the current snapshot cur;
\* s is the snapshot its closure captured
AiDispatch(cur, s, move, randomSuit) ==
    LET moved ==
            IF move # NoCard
            THEN LET played == gameReducer(cur, [type |-> "AI_PLAY", card |-> move])
                 IN  IF move.rank = "A"
                     THEN gameReducer(played, [type |-> "SET_SUIT", suit |-> randomSuit])
                     ELSE played
            ELSE IF Len(s.deck) > 0
                 THEN gameReducer(cur, [type |-> "DRAW", who |-> "ai"])
                 ELSE gameReducer(cur, [type |-> "SKIP_TURN", who |-> "ai"])
    IN  gameReducer(moved, [type |-> "SET_AI_THINKING", value |-> FALSE])

\* the setTimeout callback of the AI effect, 1500 ms after it was armed
AiTimerFire ==
    /\ timer.pending
    /\ WithinBound
    /\ LET s == timer.snap IN
       IF s.status # "playing" \/ s.turn # "ai"
       THEN /\ timer' = NoTimer
            /\ UNCHANGED <<state, effDeps>>
       ELSE \E move \in getAiMove(s.aiHand, Top(s), s.currentSuit) :
            \E randomSuit \in Range(SUITS) :
               Commit(AiDispatch(state, s, move, randomSuit), NoTimer)
    /\ UNCHANGED <<fullDeck, probe>>

----------------------------------------------------------------------------
(* The pure helpers of gameLogic.ts applied to inputs drawn from bounded sets *)

NoProbe ==
    [fn |-> "none", card |-> NoCard, hand |-> <<>>, topCard |-> NoCard,
     currentSuit |-> null, seed |-> 0, done |-> FALSE, valid |-> FALSE,
     move |-> NoCard, argument |-> <<>>, returned |-> <<>>]

\* every card of the 52-card deck, and the cards of the reduced table
AllCards == Range(OrderedDeck(TRUE))
SmallCards == Range(OrderedDeck(FALSE))

SuitOrNull == Range(SUITS) \cup {null}

\* hands of exactly n distinct cards of the reduced table, in every order
RECURSIVE HandsOfLen(_)
HandsOfLen(n) ==
    IF n = 0 THEN {<<>>}
    ELSE UNION {{Append(h, c) : c \in SmallCards \ Range(h)} : h \in HandsOfLen(n - 1)}

ProbeHands == UNION {HandsOfLen(n) : n \in 0..MaxProbeHand}

ValidMoveInputs ==
    {[NoProbe EXCEPT !.fn = "isValidMove", !.card = c, !.topCard = tc, !.currentSuit = cs] :
        c \in AllCards \cup {NoCard}, tc \in AllCards \cup {NoCard}, cs \in SuitOrNull}

AiMoveInputs ==
    {[NoProbe EXCEPT !.fn = "getAiMove", !.hand = h, !.topCard = tc, !.currentSuit = cs] :
        h \in ProbeHands, tc \in SmallCards \cup {NoCard}, cs \in SuitOrNull}

\* arrays handed to shuffle: every prefix of the 52-card deck in creation
\* order, the small hands, and the small hands with every card twice
ShuffleArrays ==
    {SubSeq(OrderedDeck(TRUE), 1, b) : b \in 0..DeckSize(TRUE)}
        \cup ProbeHands \cup {h \o h : h \in ProbeHands}

ShuffleInputs ==
    {[NoProbe EXCEPT !.fn = "shuffle", !.hand = d, !.seed = seed] :
        d \in ShuffleArrays, seed \in Seeds}

CreateDeckInputs ==
    {[NoProbe EXCEPT !.fn = "createDeck", !.seed = seed] : seed \in Seeds}

InitLogic ==
    /\ state = initialState
    /\ timer = NoTimer
    /\ effDeps = Deps(initialState)
    /\ fullDeck = TRUE
    /\ \/ probe \in ValidMoveInputs
       \/ probe \in AiMoveInputs
       \/ probe \in ShuffleInputs
       \/ probe \in CreateDeckInputs

EvalIsValidMove ==
    /\ probe.fn = "isValidMove"
    /\ ~probe.done
    /\ probe' = [probe EXCEPT !.done = TRUE,
                              !.valid = isValidMove(probe.card, probe.topCard, probe.currentSuit)]
    /\ UNCHANGED <<state, timer, effDeps, fullDeck>>

EvalGetAiMove ==
    /\ probe.fn = "getAiMove"
    /\ ~probe.done
    /\ \E m \in getAiMove(probe.hand, probe.topCard, probe.currentSuit) :
          probe' = [probe EXCEPT !.done = TRUE, !.move = m]
    /\ UNCHANGED <<state, timer, effDeps, fullDeck>>

EvalShuffle ==
    /\ probe.fn = "shuffle"
    /\ ~probe.done
    /\ LET call == shuffleCall(probe.hand, probe.seed)
       IN  probe' = [probe EXCEPT !.done = TRUE,
                                  !.argument = call.argument,
                                  !.returned = call.returned]
    /\ UNCHANGED <<state, timer, effDeps, fullDeck>>

EvalCreateDeck ==
    /\ probe.fn = "createDeck"
    /\ ~probe.done
    /\ probe' = [probe EXCEPT !.done = TRUE, !.returned = createDeck(fullDeck, probe.seed)]
    /\ UNCHANGED <<state, timer, effDeps, fullDeck>>

NextLogic ==
    \/ EvalIsValidMove
    \/ EvalGetAiMove
    \/ EvalShuffle
    \/ EvalCreateDeck

SpecLogic == InitLogic /\ [][NextLogic]_vars

----------------------------------------------------------------------------
Init ==
    /\ state = initialState
    /\ timer = NoTimer
    /\ effDeps = Deps(initialState)
    /\ fullDeck \in BOOLEAN
    /\ probe = NoProbe

Next ==
    \/ ClickStart
    \/ ClickMenu
    \/ ClickCard
    \/ ClickDraw
    \/ PickSuit
    \/ AiTimerFire

Spec == Init /\ [][Next]_vars

\* the browser runs the callback of a timer that stays armed: setTimeout(..., 1500)
SpecFair == Spec /\ WF_vars(AiTimerFire)

----------------------------------------------------------------------------
(* Vocabulary of the properties *)

Started(s) == s.status \in {"playing", "gameOver"}

\* the four zones of a snapshot, laid end to end
Zones(s) == s.deck \o s.playerHand \o s.aiHand \o s.discardPile

\* the cards of the table in use
TableCards == Range(OrderedDeck(fullDeck))

\* every card of the table is in exactly one place of the four zones
Conserved(s) ==
    /\ Len(Zones(s)) = DeckSize(fullDeck)
    /\ Range(Zones(s)) = TableCards
    /\ Cardinality({c.id : c \in Range(Zones(s))}) = DeckSize(fullDeck)
    /\ fullDeck => Len(Zones(s)) = 52

Other(who) == IF who = "player" THEN "ai" ELSE "player"

HandOf(s, who) == IF who = "player" THEN s.playerHand ELSE s.aiHand

Play(who, card) ==
    [type |-> IF who = "player" THEN "PLAYER_PLAY" ELSE "AI_PLAY", card |-> card]

\* a participant's attempts to play a card it holds
PlayIntents(s) ==
    {Play(who, c) : who \in {"player"}, c \in Range(s.playerHand)} \cup
    {Play(who, c) : who \in {"ai"}, c \in Range(s.aiHand)}

\* a play intent naming any card of the table
AnyPlayIntents == {Play(who, c) : who \in {"player", "ai"}, c \in TableCards}

DrawIntents == {[type |-> "DRAW", who |-> who] : who \in {"player", "ai"}}

SkipIntents == {[type |-> "SKIP_TURN", who |-> who] : who \in {"player", "ai"}}

SuitIntents == {[type |-> "SET_SUIT", suit |-> suit] : suit \in Range(SUITS)}

StartIntents == {[type |-> "START_GAME", seed |-> seed] : seed \in Seeds}

Actor(a) == IF a.type = "PLAYER_PLAY" THEN "player" ELSE "ai"

\* the four ways a play intent is illegal
IllegalPlay(s, a) ==
    \/ s.turn # Actor(a)
    \/ s.status # "playing"
    \/ s.showSuitPicker
    \/ ~isValidMove(a.card, Top(s), s.currentSuit)

NoLegalCard(s, who) ==
    \A c \in Range(HandOf(s, who)) : ~isValidMove(c, Top(s), s.currentSuit)

----------------------------------------------------------------------------
(* C1..C5 *)

\* C1: from every snapshot of the running program, whatever intent the reducer
\* is handed next, a started game holds every card of the deck exactly once
\* across draw pile, playerHand, aiHand and discardPile (52 on the full table).
C1_ConservedUnderAnyIntent ==
    Started(state) =>
        /\ Conserved(state)
        /\ \A a \in AnyPlayIntents \cup DrawIntents \cup SkipIntents \cup SuitIntents \cup StartIntents :
              LET n == gameReducer(state, a) IN Started(n) => Conserved(n)

\* C2: a play intent that is out of turn, outside a playing game, issued while
\* the suit picker is open, or naming a card that fails isValidMove, leaves
\* the snapshot unchanged.
C2_IllegalPlayIsNoOp ==
    \A a \in PlayIntents(state) :
        IllegalPlay(state, a) => gameReducer(state, a) = state

\* C3: once a play has emptied a hand the status is gameOver, and no play,
\* draw or skip intent changes playerHand or aiHand from then on.
C3_HandsFrozenAfterOver ==
    state.status = "gameOver" =>
        /\ Len(state.playerHand) = 0 \/ Len(state.aiHand) = 0
        /\ \A a \in PlayIntents(state) \cup DrawIntents \cup SkipIntents :
              LET n == gameReducer(state, a)
              IN  n.playerHand = state.playerHand /\ n.aiHand = state.aiHand

\* C4: in every reachable state of a started game, status is gameOver exactly
\* when playerHand or aiHand is empty.
C4_OverIffEmptyHand ==
    Started(state) =>
        (state.status = "gameOver" <=>
            (Len(state.playerHand) = 0 \/ Len(state.aiHand) = 0))

\* a game the computer has won while the player still holds cards
C4_Witness ==
    /\ state.status = "gameOver"
    /\ Len(state.aiHand) = 0
    /\ Len(state.playerHand) > 0
    /\ Len(state.discardPile) > 1

\* C5: START_GAME applied to any reachable snapshot, for every outcome of the
\* shuffle, yields a playing game with the player to move, a full deal to each
\* hand (8 and 8, leaving 35 in the draw pile, on the full table), one non-Ace
\* discard, no declared suit, no open suit picker and no thinking flag.
C5_StartGameDeals ==
    \A a \in StartIntents :
        LET n == gameReducer(state, a) IN
        /\ n.status = "playing"
        /\ n.turn = "player"
        /\ Len(n.playerHand) = DealCount(fullDeck)
        /\ Len(n.aiHand) = DealCount(fullDeck)
        /\ Len(n.deck) = DeckSize(fullDeck) - 2 * DealCount(fullDeck) - 1
        /\ Len(n.discardPile) = 1
        /\ n.discardPile[1].rank # "A"
        /\ n.currentSuit = null
        /\ ~n.showSuitPicker
        /\ ~n.isAiThinking
        /\ fullDeck => Len(n.playerHand) = 8 /\ Len(n.aiHand) = 8 /\ Len(n.deck) = 35

\* a fresh deal of the 52-card deck whose first seed card was an Ace, now at
\* the bottom of the draw pile
C5_Witness ==
    /\ fullDeck
    /\ state.status = "playing"
    /\ Len(state.discardPile) = 1
    /\ Len(state.playerHand) = 8
    /\ Len(state.aiHand) = 8
    /\ Len(state.deck) = 35
    /\ state.deck[1].rank = "A"

\* the intents the presentation layer does issue keep the cards conserved
C1_ConservedInProgram == Started(state) => Conserved(state)

----------------------------------------------------------------------------
(* C6..C10 *)

\* C6: isValidMove is the reference rule: an Ace is legal against any top card
\* and declared suit; with no top card every card is legal; otherwise a
\* non-Ace card is legal exactly when its rank is the top card's rank or its
\* suit is the effective suit (the declared suit when set, else the top card's).
C6_ValidMoveIsReferenceRule ==
    (probe.fn = "isValidMove" /\ probe.done /\ probe.card # NoCard) =>
        LET effective == IF probe.currentSuit \in Range(SUITS)
                         THEN probe.currentSuit ELSE probe.topCard.suit
        IN  /\ probe.card.rank = "A" => probe.valid
            /\ probe.topCard = NoCard => probe.valid
            /\ (probe.card.rank # "A" /\ probe.topCard # NoCard) =>
                  (probe.valid <=> (\/ probe.card.rank = probe.topCard.rank
                                    \/ probe.card.suit = effective))

\* a card that matches only the top card's own suit is refused under a declared suit
C6_Witness ==
    /\ probe.fn = "isValidMove"
    /\ probe.done
    /\ probe.card # NoCard
    /\ probe.topCard # NoCard
    /\ probe.card.rank # "A"
    /\ probe.currentSuit \in Range(SUITS)
    /\ probe.currentSuit # probe.topCard.suit
    /\ probe.card.suit = probe.topCard.suit
    /\ probe.card.rank # probe.topCard.rank
    /\ ~probe.valid

AnyValid(hand, topCard, currentSuit) ==
    \E c \in Range(hand) : isValidMove(c, topCard, currentSuit)

C8_LegalPlayFrame ==
    (state.status = "playing" /\ ~state.showSuitPicker) =>
        LET who == state.turn
            hand == HandOf(state, who)
        IN  \A c \in Range(hand) :
                (/\ c.rank # "A"
                 /\ isValidMove(c, Top(state), state.currentSuit)
                 /\ Len(hand) > 1) =>
                    LET n == gameReducer(state, Play(who, c)) IN
                    /\ Len(HandOf(n, who)) = Len(hand) - 1
                    /\ Range(HandOf(n, who)) = Range(hand) \ {c}
                    /\ Len(n.discardPile) = Len(state.discardPile) + 1
                    /\ Top(n) = c
                    /\ SubSeq(n.discardPile, 1, Len(state.discardPile)) = state.discardPile
                    /\ n.turn = Other(who)
                    /\ ~n.showSuitPicker
                    /\ n.currentSuit = null
                    /\ n.deck = state.deck
                    /\ HandOf(n, Other(who)) = HandOf(state, Other(who))
                    /\ n.status = "playing"

\* the player has just played a non-Ace card over a declared suit and still holds cards
C8_Witness ==
    /\ state.status = "playing"
    /\ state.message = "AI is thinking"
    /\ state.turn = "ai"
    /\ Len(state.discardPile) >= 3
    /\ Top(state).rank # "A"
    /\ state.discardPile[Len(state.discardPile) - 1].rank = "A"
    /\ state.currentSuit = null
    /\ Len(state.playerHand) > 0

\* a step in which the player plays an Ace that is not the last card of the hand
PlayerPlaysAce ==
    /\ state.status = "playing"
    /\ state.turn = "player"
    /\ Len(state'.playerHand) = Len(state.playerHand) - 1
    /\ Len(state'.playerHand) > 0
    /\ Len(state'.discardPile) = Len(state.discardPile) + 1
    /\ Top(state').rank = "A"

\* a step that applies declare-suit and nothing else to the cards
DeclaresSuit ==
    /\ state'.currentSuit \in Range(SUITS)
    /\ ~state'.showSuitPicker
    /\ state'.turn = "ai"
    /\ state'.status = state.status
    /\ Zones(state') = Zones(state)
    /\ state'.playerHand = state.playerHand
    /\ state'.aiHand = state.aiHand

\* C9: the player's Ace (not the last card) opens the suit picker and keeps the
\* turn with the player; while the picker is open it is the player's turn and
\* no computer evaluation is armed; the only game step from there is the
\* declaration, which sets the suit, closes the picker and passes the turn to ai.
C9_AceThenSuitChoice ==
    [][ /\ PlayerPlaysAce => state'.showSuitPicker
        /\ state'.showSuitPicker =>
              /\ state'.turn = "player"
              /\ state'.status = "playing"
              /\ Top(state').rank = "A"
              /\ ~timer'.pending
              /\ ~state'.isAiThinking
        /\ (state.showSuitPicker /\ state' # state) =>
              \/ state'.status = "menu"
              \/ state'.status = "playing" /\ Len(state'.discardPile) = 1
              \/ DeclaresSuit
      ]_vars

\* the player's first play was an Ace and its suit has been declared
C9_Witness ==
    /\ state.status = "playing"
    /\ Len(state.discardPile) = 2
    /\ Top(state).rank = "A"
    /\ Len(state.playerHand) = DealCount(fullDeck) - 1
    /\ Len(state.aiHand) = DealCount(fullDeck)
    /\ state.currentSuit \in Range(SUITS)
    /\ ~state.showSuitPicker
    /\ state.turn = "ai"

\* C10: a DRAW intent, for either participant, on an empty draw pile returns
\* the snapshot unchanged.
C10_DrawFromEmptyPileIsNoOp ==
    Len(state.deck) = 0 =>
        \A a \in DrawIntents : gameReducer(state, a) = state

\* the player may click an exhausted draw pile in a running game
C10_Witness ==
    /\ state.status = "playing"
    /\ Len(state.deck) = 0
    /\ state.turn = "player"
    /\ ~state.isAiThinking
    /\ ~ModalOpen(state)

----------------------------------------------------------------------------
(* C11..C15 *)

\* how many positions of sequence s hold x
Occurrences(s, x) == Cardinality({i \in 1..Len(s) : s[i] = x})

SameMultiset(s, t) ==
    /\ Len(s) = Len(t)
    /\ \A x \in Range(s) \cup Range(t) : Occurrences(s, x) = Occurrences(t, x)

\* C11: createDeck returns 52 cards holding every (suit, rank) pair exactly
\* once under pairwise distinct identifiers, and shuffle returns a permutation
\* of its argument (same length, same multiset) and leaves the argument as it was.
C11_DeckAndShuffle ==
    /\ (probe.fn = "createDeck" /\ probe.done) =>
          LET d == probe.returned IN
          /\ Len(d) = 52
          /\ \A i \in 1..Len(SUITS), j \in 1..Len(RANKS) :
                Cardinality({k \in 1..Len(d) :
                    d[k].suit = SUITS[i] /\ d[k].rank = RANKS[j]}) = 1
          /\ \A k, l \in 1..Len(d) : k # l => d[k].id # d[l].id
    /\ (probe.fn = "shuffle" /\ probe.done) =>
          /\ SameMultiset(probe.returned, probe.hand)
          /\ probe.argument = probe.hand

\* shuffle has reordered the whole 52-card deck
C11_Witness ==
    /\ probe.fn = "shuffle"
    /\ probe.done
    /\ Len(probe.hand) = 52
    /\ probe.returned # probe.hand
    /\ probe.returned[52] # probe.hand[52]

\* a step in which the computer plays an Ace that is not its last card
\* (its suit declaration is applied within the same step)
AiPlaysAce ==
    /\ timer.pending
    /\ state.status = "playing"
    /\ Len(state'.aiHand) = Len(state.aiHand) - 1
    /\ Len(state'.aiHand) > 0
    /\ Len(state'.discardPile) = Len(state.discardPile) + 1
    /\ Top(state').rank = "A"

\* a step in which the player declares the suit of the Ace just played
PlayerDeclares ==
    /\ state.showSuitPicker
    /\ ~state'.showSuitPicker
    /\ state'.status = "playing"
    /\ state'.discardPile = state.discardPile

\* C12: declare-suit passes the turn to the participant other than the one who
\* played the Ace: to ai after the player's Ace, to player after the
\* computer's Ace (when that Ace was not its last card).
C12_DeclareSuitPassesTurn ==
    [][ /\ PlayerDeclares => state'.turn = "ai"
        /\ AiPlaysAce => (state'.currentSuit \in Range(SUITS) /\ state'.turn = "player")
      ]_vars

\* C13: a DRAW intent changes the snapshot only in a playing game, for the
\* participant whose turn it is, when that participant holds no card that
\* satisfies isValidMove and the draw pile is non-empty.
C13_DrawOnlyWhenNoLegalCard ==
    \A a \in DrawIntents :
        gameReducer(state, a) # state =>
            /\ state.status = "playing"
            /\ a.who = state.turn
            /\ NoLegalCard(state, a.who)
            /\ Len(state.deck) > 0

\* C14: the suit picker is open only over an Ace, and while it is open no
\* play intent and no draw intent changes the snapshot.
C14_PickerBlocksPlayAndDraw ==
    state.showSuitPicker =>
        /\ Top(state).rank = "A"
        /\ \A a \in PlayIntents(state) \cup DrawIntents : gameReducer(state, a) = state

\* C15: a declare-suit intent on a started snapshot whose suit picker is not
\* open (a finished game included) leaves every field unchanged.
C15_DeclareOnlyWhileAwaiting ==
    (Started(state) /\ ~state.showSuitPicker) =>
        \A a \in SuitIntents : gameReducer(state, a) = state

----------------------------------------------------------------------------
(* C16..C20 *)

\* C16: whenever a suit is declared, the top of the discard pile is an Ace and
\* the suit picker is closed.
C16_DeclaredSuitOnlyOverAce ==
    state.currentSuit # null =>
        /\ Top(state).rank = "A"
        /\ ~state.showSuitPicker

\* the non-Ace cards of a hand that are legal against topCard and currentSuit
LegalNormal(hand, topCard, currentSuit) ==
    {c \in Range(hand) : c.rank # "A" /\ isValidMove(c, topCard, currentSuit)}

HoldsAce(hand) == \E c \in Range(hand) : c.rank = "A"

\* C17: against a present top card getAiMove prefers a normal match, then an
\* Ace, then passes: it returns a legal non-Ace card whenever the hand has one,
\* an Ace only when the hand has no legal non-Ace card and holds an Ace, and
\* null only when it has neither.
C17_NormalThenAceThenPass ==
    (probe.fn = "getAiMove" /\ probe.done /\ probe.topCard # NoCard) =>
        LET normal == LegalNormal(probe.hand, probe.topCard, probe.currentSuit) IN
        /\ normal # {} => probe.move \in normal
        /\ (probe.move # NoCard /\ probe.move.rank = "A") =>
              (normal = {} /\ HoldsAce(probe.hand) /\ probe.move \in Range(probe.hand))
        /\ probe.move = NoCard => (normal = {} /\ ~HoldsAce(probe.hand))

\* a hand with an Ace and a legal non-Ace card, and the non-Ace card was chosen
C17_Witness ==
    /\ probe.fn = "getAiMove"
    /\ probe.done
    /\ probe.topCard # NoCard
    /\ HoldsAce(probe.hand)
    /\ LegalNormal(probe.hand, probe.topCard, probe.currentSuit) # {}
    /\ probe.hand[1].rank = "A"
    /\ probe.move.rank # "A"
    /\ probe.move # NoCard

\* C18: a SKIP_TURN intent never moves a card or touches status and declared
\* suit, and it changes the snapshot (flipping the turn) only when the draw
\* pile is empty and the participant whose turn it is, the one skipping, holds
\* no legal card in a playing game.
C18_SkipOnlyWhenStuck ==
    Started(state) =>
        \A a \in SkipIntents :
            LET n == gameReducer(state, a) IN
            /\ n.deck = state.deck
            /\ n.playerHand = state.playerHand
            /\ n.aiHand = state.aiHand
            /\ n.discardPile = state.discardPile
            /\ n.status = state.status
            /\ n.currentSuit = state.currentSuit
            /\ n # state =>
                  /\ n.turn = Other(state.turn)
                  /\ state.status = "playing"
                  /\ a.who = state.turn
                  /\ Len(state.deck) = 0
                  /\ NoLegalCard(state, a.who)

\* a step that deals a new game
Restarted ==
    /\ state'.status = "playing"
    /\ Len(state'.discardPile) = 1
    /\ state'.message = "your turn"

\* a step that abandons the game in progress: back to the menu, or a new deal
Abandoned == state'.status = "menu" \/ Restarted

\* a step in which the pending evaluation fires and its dispatches are applied
EvaluationApplied ==
    /\ timer.pending
    /\ state' # state
    /\ ~Abandoned

\* the computer's move of one step: one play (with its declaration), one draw, or one skip
OneAiMove ==
    /\ state'.playerHand = state.playerHand
    /\ \/ /\ Len(state'.aiHand) = Len(state.aiHand) - 1
          /\ Len(state'.discardPile) = Len(state.discardPile) + 1
          /\ Top(state') \in Range(state.aiHand)
          /\ state'.deck = state.deck
       \/ /\ Len(state.deck) > 0
          /\ state'.deck = SubSeq(state.deck, 1, Len(state.deck) - 1)
          /\ state'.aiHand = Append(state.aiHand, state.deck[Len(state.deck)])
          /\ state'.discardPile = state.discardPile
       \/ /\ state'.deck = state.deck
          /\ state'.aiHand = state.aiHand
          /\ state'.discardPile = state.discardPile
          /\ state'.message = "skipped"

\* C19: an evaluation is pending only on the computer's turn of a playing game
\* with isAiThinking set; while isAiThinking is set a new evaluation is armed
\* only by the step in which the pending one fires; and a firing applies
\* exactly one move of the computer: one play, one draw or one skip.
C19_OneEvaluationOneMove ==
    [][ /\ timer'.pending =>
              /\ state'.status = "playing"
              /\ state'.turn = "ai"
              /\ state'.isAiThinking
        /\ (state.isAiThinking /\ timer'.pending /\ timer' # timer) => EvaluationApplied
        /\ (~state.isAiThinking /\ timer'.pending) => ~timer.pending
        /\ EvaluationApplied => OneAiMove
      ]_vars

\* the computer has played an Ace and declared its suit, and its next evaluation is pending
C19_Witness ==
    /\ timer.pending
    /\ state.isAiThinking
    /\ state.turn = "ai"
    /\ Len(state.discardPile) >= 2
    /\ Top(state).rank = "A"
    /\ state.currentSuit \in Range(SUITS)
    /\ Len(state.aiHand) < DealCount(fullDeck)
    /\ Len(state.playerHand) >= DealCount(fullDeck)

\* the snapshots a restart or a return to the menu produces
FreshSnapshots ==
    {SetMenu(state)} \cup {StartGame(fullDeck, seed) : seed \in Seeds}

\* C20: when the game is restarted or returned to the menu while an evaluation
\* is pending, the evaluation is cleared and the new snapshot is exactly the
\* menu state or a fresh deal; and an evaluation that is pending was always
\* scheduled against the current snapshot, so none computed from an abandoned
\* snapshot is ever applied.
C20_AbandonedEvaluationNeverApplied ==
    [][ /\ (timer.pending /\ Abandoned) =>
              /\ ~timer'.pending
              /\ timer'.cleared
              /\ state' \in FreshSnapshots
        /\ timer'.cleared => (~timer'.pending /\ state' \in FreshSnapshots)
        /\ timer'.pending => timer'.snap = [state' EXCEPT !.isAiThinking = FALSE]
      ]_vars

\* a new game dealt over a game in which the computer was thinking
C20_Witness ==
    /\ timer.cleared
    /\ ~timer.pending
    /\ state.status = "playing"
    /\ state.turn = "player"
    /\ ~state.isAiThinking

----------------------------------------------------------------------------
(* C21..C22 *)

\* the player holds a card that handlePlayerPlay accepts
PlayerHasLegalCard(s) ==
    \E c \in Range(s.playerHand) : isValidMove(c, Top(s), s.currentSuit)

\* C21: in every reachable playing state the participant to move has a game
\* move the presentation layer issues and that changes the state: a suit
\* declaration while the picker is open, the pending evaluation on the
\* computer's turn, and on the player's turn a legal card to click or a
\* non-empty draw pile to click.
C21_NeverStuck ==
    state.status = "playing" =>
        \/ state.showSuitPicker
        \/ state.turn = "ai" /\ timer.pending
        \/ /\ state.turn = "player"
           /\ ~state.isAiThinking
           /\ PlayerHasLegalCard(state) \/ Len(state.deck) > 0

\* the computer is to move in a playing game
AiToMove == state.status = "playing" /\ state.turn = "ai"

\* the player may move again, or the game is over or was left
PlayerFree ==
    \/ state.status # "playing"
    \/ state.turn = "player" /\ ~state.isAiThinking

\* C22: when the timer fires whenever it stays armed, every state in which the
\* computer is to move in a playing game leads to a state with turn = player
\* and isAiThinking false, or to a finished or abandoned game (or to the
\* model's bound on the moves of a full-table game); and isAiThinking is never
\* true on the player's turn.
C22_AiTurnEnds ==
    /\ [](state.turn = "player" => ~state.isAiThinking)
    /\ (AiToMove ~> (PlayerFree \/ ~WithinBound))

\* the computer could neither play nor draw, passed, and the player is to move
C22_Witness ==
    /\ state.status = "playing"
    /\ state.turn = "player"
    /\ ~state.isAiThinking
    /\ ~timer.pending
    /\ state.message = "skipped"
    /\ Len(state.deck) = 0

====
